---------------------------- MODULE Spec2Model ----------------------------
(***************************************************************************)
(* Model of the navigator build of src/Code/0_generate_hydro_files.py:     *)
(* modify.nhd (outlet flagging), NavigatorBuilder.unpack_nhd, rapid_trace, *)
(* map_paths, collapse_array and write.navigator.                          *)
(*                                                                         *)
(* numpy arrays are functions over 0..n-1, so that every index of the      *)
(* model is the index of the source.  Travel times and lengths are small   *)
(* integers (exactly representable in float32, so np.cumsum is exact).     *)
(***************************************************************************)
EXTENDS Integers, Sequences, FiniteSets, TLC

(* ------------------------------ bounds --------------------------------- *)
\* largest number of records of an input table handed to NavigatorBuilder
MaxReaches == 4

\* largest number of records of a table handed to modify.nhd, and largest id
MaxTableReaches == 2
MaxId == 2

\* rapid_trace(max_length=3000, max_paths=500000), scaled to the bounds above
max_length == 3
max_paths == 3

\* parameters.nhd_regions: the regions main works through, in order
nhd_regions == <<"01", "02">>

(* --------------------------- numpy helpers ----------------------------- *)
Zeros(n) == [k \in 0..(n - 1) |-> 0]

Zeros2(r, c) == [k \in 0..(r - 1) |-> Zeros(c)]

Size(a) == Cardinality(DOMAIN a)

Positive(x) == IF x > 0 THEN 1 ELSE 0

\* np.cumsum(a)[k]
RECURSIVE CumSum(_, _)
CumSum(a, k) == IF k < 0 THEN 0 ELSE a[k] + CumSum(a, k - 1)

\* np.argmax(mask): index of the first TRUE, 0 when there is none
ArgMax(mask) ==
    IF \E k \in DOMAIN mask : mask[k]
    THEN CHOOSE k \in DOMAIN mask : mask[k] /\ \A m \in DOMAIN mask : mask[m] => k <= m
    ELSE 0

\* np.max over a 2-D array with at least one cell
Max2(a) ==
    LET vals == UNION {{a[r][c] : c \in DOMAIN a[r]} : r \in DOMAIN a}
    IN CHOOSE v \in vals : \A w \in vals : w <= v

\* a[:n], at most the whole of a
Take(a, n) == [k \in 0..((IF n < Size(a) THEN n ELSE Size(a)) - 1) |-> a[k]]

VARIABLES
    pc,            \* position in main / NavigatorBuilder.__init__
    error,         \* the exception that ended the run, "none" while there is none
    nhd_table,     \* the reach table: a record of columns, each over 0..N-1
    nodes, times, dists, outlets, conversion,      \* results of unpack_nhd
    all_paths, all_times, all_dists,               \* rapid_trace: output arrays
    path_cursor, longest_path, progress, already,  \* rapid_trace: bounds, master
    i,                                             \* rapid_trace: outlet index
    queue, active_reach, active_times, active_dists,
    start_cursor, queue_cursor, active_reach_cursor, active_node,
    paths, ptimes, pdists,                         \* what rapid_trace returned
    path_map,                                      \* self.path_map
    nav,                                           \* paths, times, length, start_cols
    artifact,                                      \* what write.navigator saved
    committed,                                     \* history: the walk of each commit
    run, first,                                    \* re-run bookkeeping (SpecRerun)
    region,                                        \* main: position in nhd_regions
    written                                        \* regions whose artifact is on disk

inputv == <<nhd_table>>
unpackv == <<nodes, times, dists, outlets, conversion>>
outv == <<all_paths, all_times, all_dists>>
masterv == <<path_cursor, longest_path, progress, already, committed>>
bufv == <<queue, active_reach, active_times, active_dists>>
cursorv == <<start_cursor, queue_cursor, active_reach_cursor, active_node>>
tracev == <<outv, masterv, i, bufv, cursorv>>
resultv == <<paths, ptimes, pdists>>
buildv == <<path_map, nav, artifact>>
rerunv == <<run, first>>
mainv == <<region, written>>
vars == <<pc, error, inputv, unpackv, tracev, resultv, buildv, rerunv, mainv>>

\* number of records of the table
N == Size(nhd_table.comid)

Empty == Zeros(0)

(* ------------------------------- Init ---------------------------------- *)
NoTables == [paths |-> Empty, times |-> Empty, dists |-> Empty]

NoNav == [paths |-> Empty, times |-> Empty, length |-> Empty, start_cols |-> Empty]

NoArtifact == [paths |-> Empty, time |-> Empty, length |-> Empty,
               path_map |-> Empty, alias_index |-> Empty]

\* everything that is not the input table, before the build starts
Unbuilt ==
    /\ error = "none"
    /\ nodes = Empty /\ times = Empty /\ dists = Empty
    /\ outlets = Empty /\ conversion = Empty
    /\ all_paths = Empty /\ all_times = Empty /\ all_dists = Empty
    /\ path_cursor = 0 /\ longest_path = 0 /\ progress = 0 /\ already = {}
    /\ committed = <<>>
    /\ i = 0
    /\ queue = Empty /\ active_reach = Empty
    /\ active_times = Empty /\ active_dists = Empty
    /\ start_cursor = 0 /\ queue_cursor = 0
    /\ active_reach_cursor = 0 /\ active_node = 0
    /\ paths = Empty /\ ptimes = Empty /\ pdists = Empty
    /\ path_map = Empty
    /\ nav = NoNav
    /\ artifact = NoArtifact
    /\ run = 1 /\ first = NoTables

\* the attribute columns of a table of n records: one travel time for all
\* reaches, and lengths 1, 2, 4, ... so that no two sets of reaches have the
\* same total length
TimeValues == {2}

TravelTimes(n) == {[k \in 0..(n - 1) |-> t] : t \in TimeValues}

Lengths(n) == [k \in 0..(n - 1) |-> 2 ^ k]

\* A table as NavigatorBuilder(nhd_table) receives it: n records with distinct
\* positive ids 1..n in table order, each flowing to a reach of the table or
\* to no reach (-1, modify.nhd's fillna), with any outlet flags.
Init ==
    /\ pc = "unpack"
    /\ region = 1 /\ written = {}
    /\ \E n \in 1..MaxReaches :
         \E to \in [0..(n - 1) -> {-1} \cup 1..n],
            flag \in [0..(n - 1) -> {0, 1}],
            tt \in TravelTimes(n) :
           nhd_table = [comid |-> [k \in 0..(n - 1) |-> k + 1],
                        tocomid |-> to,
                        outlet |-> flag,
                        travel_time |-> tt,
                        length |-> Lengths(n)]
    /\ Unbuilt

(* ------------------------ failure of the run --------------------------- *)
\* the exception reported and the loop over the outlets carried on
RaiseAndGoOn(kind) ==
    /\ pc' = "outlet"
    /\ error' = kind

\* the exception reported and the step that raised it run again
RaiseAndRetry(kind) ==
    /\ pc' = pc
    /\ error' = kind

\* an uncaught exception (or exit()) leaves main: nothing runs afterwards
Raise(kind) ==
    /\ pc' = "failed"
    /\ error' = kind

(* ----------------------------- unpack_nhd ------------------------------ *)
\* a lookup that never refuses an index with repeated ids
IsUniqueUnchecked(comid) == TRUE

\* pandas Index.is_unique of convert's index
IsUnique(comid) ==
    \A a, b \in DOMAIN comid : comid[a] = comid[b] => a = b

\* the lookup with fillna(0) in the place of fillna(-1)
ConvertFillZero(comid, id) ==
    IF \E k \in DOMAIN comid : comid[k] = id
    THEN CHOOSE k \in DOMAIN comid : comid[k] = id
    ELSE 0

\* convert = pd.Series(np.arange(comid.size), index=comid.values), and
\* column.map(convert).fillna(-1) of one value
Convert(comid, id) ==
    IF \E k \in DOMAIN comid : comid[k] = id
    THEN CHOOSE k \in DOMAIN comid : comid[k] = id
    ELSE -1

\* the ids ordered by id (convert.sort_index()) instead of by alias
ConversionSortedById(comid) ==
    [a \in 0..(Size(comid) - 1) |->
        comid[CHOOSE k \in DOMAIN comid :
                 Cardinality({m \in DOMAIN comid : comid[m] < comid[k]}) = a]]

\* convert.sort_values().index.values: the ids ordered by their alias
ConversionArray(comid) ==
    [a \in 0..(Size(comid) - 1) |->
        comid[CHOOSE k \in DOMAIN comid :
                 Cardinality({m \in DOMAIN comid : m < k}) = a]]

\* nodes.comid[nhd_table.outlet == 1].values, as a 0-based array
RECURSIVE Flagged(_, _, _)
Flagged(col, flag, k) ==
    IF k >= Size(col) THEN <<>>
    ELSE IF flag[k] = 1 THEN <<col[k]>> \o Flagged(col, flag, k + 1)
    ELSE Flagged(col, flag, k + 1)

Array(seq) == [k \in 0..(Len(seq) - 1) |-> seq[k + 1]]

UnpackNhd ==
    /\ pc = "unpack"
    /\ IF ~IsUnique(nhd_table.comid)
       THEN \* Series.map with a non-unique index raises InvalidIndexError
            /\ Raise("InvalidIndexError")
            /\ UNCHANGED unpackv
       ELSE LET comid == nhd_table.comid
                aliased == [k \in DOMAIN comid |->
                              <<Convert(comid, nhd_table.tocomid[k]),
                                Convert(comid, comid[k])>>]
            IN /\ nodes' = aliased
               /\ times' = nhd_table.travel_time
               /\ dists' = nhd_table.length
               /\ outlets' = Array(Flagged([k \in DOMAIN comid |-> aliased[k][2]],
                                           nhd_table.outlet, 0))
               /\ conversion' = ConversionArray(comid)
               /\ pc' = "trace"
               /\ UNCHANGED error
    /\ UNCHANGED <<inputv, tracev, resultv, buildv, rerunv, mainv>>

(* ----------------------------- rapid_trace ----------------------------- *)
\* lines 165-175 with the visited set kept from one call to the next
RapidTraceKeepVisited ==
    /\ pc = "trace"
    /\ all_paths' = Zeros2(max_paths, max_length)
    /\ all_times' = Zeros2(max_paths, max_length)
    /\ all_dists' = Zeros2(max_paths, max_length)
    /\ path_cursor' = 0
    /\ longest_path' = 0
    /\ progress' = 0
    /\ committed' = <<>>
    /\ i' = 0
    /\ pc' = "outlet"
    /\ UNCHANGED <<error, inputv, unpackv, already, bufv, cursorv, resultv, buildv, rerunv, mainv>>

\* lines 165-175: the output arrays, the bounds and the master counters
RapidTrace ==
    /\ pc = "trace"
    /\ all_paths' = Zeros2(max_paths, max_length)
    /\ all_times' = Zeros2(max_paths, max_length)
    /\ all_dists' = Zeros2(max_paths, max_length)
    /\ path_cursor' = 0
    /\ longest_path' = 0
    /\ progress' = 0
    /\ already' = {}
    /\ committed' = <<>>
    /\ i' = 0
    /\ pc' = "outlet"
    /\ UNCHANGED <<error, inputv, unpackv, bufv, cursorv, resultv, buildv, rerunv, mainv>>

\* the slice with its last column left out: all_paths[:path_cursor, :longest_path - 1]
SliceShort(a, rows, cols) == [r \in 0..(rows - 1) |-> Take(a[r], cols - 1)]

\* all_paths[:path_cursor, :longest_path]
Slice(a, rows, cols) == [r \in 0..(rows - 1) |-> Take(a[r], cols)]

\* lines 178-191 with the buffers of the previous outlet kept (lines 182-185
\* left out)
NextOutletKeepBuffers ==
    /\ pc = "outlet"
    /\ IF i < Size(outlets)
       THEN /\ start_cursor' = 0
            /\ queue_cursor' = 0
            /\ active_reach_cursor' = 0
            /\ active_node' = outlets[i]
            /\ pc' = "walk"
            /\ IF i = 0
               THEN /\ queue' = [k \in 0..(Size(nodes) - 1) |-> <<0, 0>>]
                    /\ active_reach' = Zeros(max_length)
                    /\ active_times' = Zeros(max_length)
                    /\ active_dists' = Zeros(max_length)
               ELSE UNCHANGED bufv
            /\ UNCHANGED resultv
       ELSE /\ paths' = Slice(all_paths, path_cursor, longest_path)
            /\ ptimes' = Slice(all_times, path_cursor, longest_path)
            /\ pdists' = Slice(all_dists, path_cursor, longest_path)
            /\ pc' = "map"
            /\ UNCHANGED <<bufv, cursorv>>
    /\ UNCHANGED <<error, inputv, unpackv, outv, masterv, i, buildv, rerunv, mainv>>

\* lines 178-191, the head of the for loop: the next outlet's buffers and
\* cursors, or, after the last outlet, the return of lines 244-246
NextOutlet ==
    /\ pc = "outlet"
    /\ IF i < Size(outlets)
       THEN /\ queue' = [k \in 0..(Size(nodes) - 1) |-> <<0, 0>>]
            /\ active_reach' = Zeros(max_length)
            /\ active_times' = Zeros(max_length)
            /\ active_dists' = Zeros(max_length)
            /\ start_cursor' = 0
            /\ queue_cursor' = 0
            /\ active_reach_cursor' = 0
            /\ active_node' = outlets[i]
            /\ pc' = "walk"
            /\ UNCHANGED resultv
       ELSE /\ paths' = Slice(all_paths, path_cursor, longest_path)
            /\ ptimes' = Slice(all_times, path_cursor, longest_path)
            /\ pdists' = Slice(all_dists, path_cursor, longest_path)
            /\ pc' = "map"
            /\ UNCHANGED <<bufv, cursorv>>
    /\ UNCHANGED <<error, inputv, unpackv, outv, masterv, i, buildv, rerunv, mainv>>

\* nodes[nodes[:, 0] == active_node]: the rows flowing into a, in table order
RECURSIVE UpstreamFrom(_, _, _)
UpstreamFrom(nd, a, k) ==
    IF k >= Size(nd) THEN <<>>
    ELSE IF nd[k][1] = a THEN <<nd[k]>> \o UpstreamFrom(nd, a, k + 1)
    ELSE UpstreamFrom(nd, a, k + 1)

\* the rows flowing into a, last record of the table first
RECURSIVE UpstreamBackFrom(_, _, _)
UpstreamBackFrom(nd, a, k) ==
    IF k < 0 THEN <<>>
    ELSE IF nd[k][1] = a THEN <<nd[k]>> \o UpstreamBackFrom(nd, a, k - 1)
    ELSE UpstreamBackFrom(nd, a, k - 1)

UpstreamLastFirst(nd, a) == UpstreamBackFrom(nd, a, Size(nd) - 1)

Upstream(nd, a) == UpstreamFrom(nd, a, 0)

\* an index clipped to the last cell instead of refused
PyIndexClip(k, n) ==
    IF 0 <= k /\ k < n THEN k
    ELSE IF k < 0 /\ 0 <= k + n THEN k + n
    ELSE n - 1

\* an index wrapped around instead of refused
PyIndexWrap(k, n) ==
    IF 0 <= k /\ k < n THEN k
    ELSE IF k < 0 /\ 0 <= k + n THEN k + n
    ELSE k % n

\* numpy's index of position k in an array of n cells (negative k counts from
\* the end); -1 stands for IndexError
PyIndex(k, n) ==
    IF 0 <= k /\ k < n THEN k
    ELSE IF k < 0 /\ 0 <= k + n THEN k + n
    ELSE -1

\* lines 221-223 with the store left as it is
PushNone(q, cursor, upstream, j) == q

\* lines 221-223 with every new entry put below the entries of the store
RECURSIVE PushFront(_, _, _, _)
PushFront(q, cursor, upstream, j) ==
    IF j > Len(upstream) THEN q
    ELSE PushFront([k \in DOMAIN q |-> IF k = 0 THEN upstream[j]
                                       ELSE q[k - 1]], cursor + 1, upstream, j + 1)

\* lines 221-223: queue[queue_cursor] = upstream[j] for j = 1 .. len - 1
RECURSIVE Push(_, _, _, _)
Push(q, cursor, upstream, j) ==
    IF j > Len(upstream) THEN q
    ELSE Push([q EXCEPT ![cursor] = upstream[j]], cursor + 1, upstream, j + 1)

\* lines 235-238 with the cursor set to the position holding last_node itself
ResumeCursorAtMatch(reach, last_node, cursor) ==
    IF \E j \in DOMAIN reach : reach[j] = last_node
    THEN CHOOSE j \in DOMAIN reach :
             reach[j] = last_node /\ \A m \in DOMAIN reach : reach[m] = last_node => j <= m
    ELSE cursor

\* lines 235-238: one past the first buffer position holding last_node, the
\* cursor as it is when no position holds it
ResumeCursor(reach, last_node, cursor) ==
    IF \E j \in DOMAIN reach : reach[j] = last_node
    THEN 1 + CHOOSE j \in DOMAIN reach :
                 reach[j] = last_node /\ \A m \in DOMAIN reach : reach[m] = last_node => j <= m
    ELSE cursor

\* a[cursor:] = 0
ZeroFrom(a, cursor) == [k \in DOMAIN a |-> IF k >= cursor THEN 0 ELSE a[k]]

\* the commit of lines 227-229 with the whole buffer copied into the row
CommitRowWhole(row, reach, start) == reach

\* line 227: row[start_cursor:] = active_reach[start_cursor:]
CommitRow(row, reach, start) == [k \in DOMAIN row |-> IF k >= start THEN reach[k] ELSE row[k]]

\* lines 228-229: np.cumsum(active) * (row > 0)
CumRow(active, row) == [k \in DOMAIN row |-> CumSum(active, k) * Positive(row[k])]

\* lines 194-242: one iteration of the while loop
Walk ==
    /\ pc = "walk"
    /\ progress' = progress + 1
    /\ LET upstream == Upstream(nodes, active_node)
           id == conversion[active_node]
       IN IF id \in already
          THEN \* lines 204-206: report the loop and exit()
               /\ Raise("SystemExit")
               /\ UNCHANGED <<outv, path_cursor, longest_path, already, committed, i, bufv, cursorv>>
          ELSE
          /\ already' = already \cup {id}
          /\ IF PyIndex(active_reach_cursor, max_length) = -1
             THEN \* line 209: the buffer has no position active_reach_cursor
                  /\ Raise("IndexError")
                  /\ UNCHANGED <<outv, path_cursor, longest_path, committed, i, bufv, cursorv>>
             ELSE
             LET at == PyIndex(active_reach_cursor, max_length)
                 reach == [active_reach EXCEPT ![at] = active_node]
                 atimes == [active_times EXCEPT ![at] = times[active_node]]
                 adists == [active_dists EXCEPT ![at] = dists[active_node]]
                 cursor == active_reach_cursor + 1
                 longest == IF cursor > longest_path THEN cursor ELSE longest_path
             IN
             /\ longest_path' = longest
             /\ IF upstream # <<>>
                THEN \* lines 219-223: go on with the first, queue the others
                     /\ active_node' = upstream[1][2]
                     /\ IF queue_cursor + Len(upstream) - 1 > Size(queue)
                        THEN /\ Raise("IndexError")
                             /\ UNCHANGED <<queue, queue_cursor>>
                        ELSE /\ queue' = Push(queue, queue_cursor, upstream, 2)
                             /\ queue_cursor' = queue_cursor + Len(upstream) - 1
                             /\ UNCHANGED <<pc, error>>
                     /\ active_reach' = reach
                     /\ active_times' = atimes
                     /\ active_dists' = adists
                     /\ active_reach_cursor' = cursor
                     /\ UNCHANGED <<outv, path_cursor, committed, i, start_cursor>>
                ELSE IF PyIndex(path_cursor, max_paths) = -1
                THEN \* line 227: the tables have no row path_cursor
                     /\ Raise("IndexError")
                     /\ active_reach' = reach
                     /\ active_times' = atimes
                     /\ active_dists' = adists
                     /\ active_reach_cursor' = cursor
                     /\ UNCHANGED <<outv, path_cursor, committed, i, queue, queue_cursor,
                                    start_cursor, active_node>>
                ELSE \* lines 227-242: commit, then resume a queued branch or break
                     LET to == PyIndex(path_cursor, max_paths)
                         row == CommitRow(all_paths[to], reach, start_cursor)
                         popped == queue[PyIndex(queue_cursor - 1, Size(queue))]
                         last_node == popped[1]
                         resumed == ResumeCursor(reach, last_node, cursor)
                     IN
                     /\ all_paths' = [all_paths EXCEPT ![to] = row]
                     /\ all_times' = [all_times EXCEPT ![to] = CumRow(atimes, row)]
                     /\ all_dists' = [all_dists EXCEPT ![to] = CumRow(adists, row)]
                     /\ queue_cursor' = queue_cursor - 1
                     /\ path_cursor' = path_cursor + 1
                     /\ committed' = Append(committed,
                                            [start |-> start_cursor, walk |-> Take(reach, cursor)])
                     /\ active_node' = popped[2]
                     /\ UNCHANGED <<queue, error>>
                     /\ IF popped = <<0, 0>>
                        THEN \* line 234: break, on to the next outlet
                             /\ active_reach' = reach
                             /\ active_times' = atimes
                             /\ active_dists' = adists
                             /\ active_reach_cursor' = cursor
                             /\ i' = i + 1
                             /\ pc' = "outlet"
                             /\ UNCHANGED start_cursor
                        ELSE /\ active_reach_cursor' = resumed
                             /\ start_cursor' = resumed
                             /\ active_reach' = ZeroFrom(reach, resumed)
                             /\ active_times' = ZeroFrom(atimes, resumed)
                             /\ active_dists' = ZeroFrom(adists, resumed)
                             /\ UNCHANGED <<pc, i>>
    /\ UNCHANGED <<inputv, unpackv, resultv, buildv, rerunv, mainv>>

(* ------------------------------ map_paths ------------------------------ *)
\* line 110: np.argmax(column_numbers > 0, axis=1)
PathBegins(p) == [r \in DOMAIN p |-> ArgMax([c \in DOMAIN p[r] |-> p[r][c] > 0])]

\* lines 117-124 for a cell of row r and column c
EndRow(p, r, c) ==
    LET path_begins == PathBegins(p)
        n_paths == Size(p)
        next_row == {q \in (r + 1)..(n_paths - 1) : path_begins[q] <= c}
    IN IF next_row # {}
       THEN (CHOOSE q \in next_row : \A m \in next_row : q <= m) - (r + 1)
       ELSE n_paths - r - 1

\* lines 112-126: the row of each alias up to max_reach; the last cell holding
\* a nonzero alias decides its row, a value held by no such cell keeps zeros
MapPathsOf(p) ==
    LET max_reach == Max2(p)
        cells(a) == {rc \in (DOMAIN p) \X (DOMAIN p[0]) : p[rc[1]][rc[2]] = a}
        last(a) == CHOOSE rc \in cells(a) : \A o \in cells(a) :
                       o[1] < rc[1] \/ (o[1] = rc[1] /\ o[2] <= rc[2])
    IN [a \in 0..max_reach |->
          IF a = 0 \/ cells(a) = {} THEN <<0, 0, 0>>
          ELSE <<last(a)[1], last(a)[1] + EndRow(p, last(a)[1], last(a)[2]) + 1, last(a)[2]>>]

MapPaths ==
    /\ pc = "map"
    /\ IF Size(paths) = 0
       THEN \* np.argmax / np.max of an empty array raise ValueError
            /\ Raise("ValueError")
            /\ UNCHANGED path_map
       ELSE /\ path_map' = MapPathsOf(paths)
            /\ pc' = "collapse"
            /\ UNCHANGED error
    /\ UNCHANGED <<inputv, unpackv, tracev, resultv, nav, artifact, rerunv, mainv>>

(* ---------------------------- collapse_array --------------------------- *)
\* a[mask]: the cells of a whose mask is set, in order
RECURSIVE MaskFrom(_, _, _)
MaskFrom(a, mask, k) ==
    IF k >= Size(a) THEN <<>>
    ELSE IF mask[k] THEN <<a[k]>> \o MaskFrom(a, mask, k + 1)
    ELSE MaskFrom(a, mask, k + 1)

Masked(a, mask) == Array(MaskFrom(a, mask, 0))

\* line 144: active_path = (row > 0)
ActivePath(row) == [c \in DOMAIN row |-> row[c] > 0]

\* lines 139-149; the four lists are returned as arrays of per-row arrays
\* (np.array of rows of unequal length builds an object array in the numpy
\* releases the code was written for)
CollapseArray ==
    /\ pc = "collapse"
    /\ nav' = [paths |-> [r \in DOMAIN paths |-> Masked(paths[r], ActivePath(paths[r]))],
               times |-> [r \in DOMAIN paths |-> Masked(ptimes[r], ActivePath(paths[r]))],
               length |-> [r \in DOMAIN paths |-> Masked(pdists[r], ActivePath(paths[r]))],
               start_cols |-> [r \in DOMAIN paths |-> ArgMax(ActivePath(paths[r]))]]
    /\ pc' = "write"
    /\ UNCHANGED <<error, inputv, unpackv, tracev, resultv, path_map, artifact, rerunv, mainv>>

(* --------------------------- write.navigator --------------------------- *)
WriteNavigator ==
    /\ pc = "write"
    /\ artifact' = [paths |-> nav.paths, time |-> nav.times, length |-> nav.length,
                    path_map |-> path_map, alias_index |-> conversion]
    /\ written' = written \cup {nhd_regions[region]}
    /\ pc' = "done"
    /\ UNCHANGED <<error, inputv, unpackv, tracev, resultv, path_map, nav, rerunv, region>>

(* ------------------------------ modify.nhd ----------------------------- *)
\* lines 226-233 without the coastal rule of line 236
OutletFlagNoCoastal(t, k) ==
    IF \/ t.terminal[k] = 1
       \/ (~(\E m \in DOMAIN t.comid : t.comid[m] = t.tocomid[k]) /\ t.streamcalc[k] > 0)
    THEN 1 ELSE 0

\* lines 226-236: terminal path, or draining out of the region with
\* streamcalc > 0, or coastal
OutletFlag(t, k) ==
    IF \/ t.terminal[k] = 1
       \/ (~(\E m \in DOMAIN t.comid : t.comid[m] = t.tocomid[k]) /\ t.streamcalc[k] > 0)
       \/ t.coastal[k] = 1
    THEN 1 ELSE 0

\* lines 189-200: one downstream target is retained for every id; which one
\* is decided by the divergence and streamcalc of the targets (any of the
\* id's targets here); the records of the id with that target are kept
Retained(t, pick) == [k \in DOMAIN t.comid |-> t.tocomid[k] = pick[t.comid[k]]]

Picks(t) ==
    {pick \in [{t.comid[k] : k \in DOMAIN t.comid} -> {t.tocomid[k] : k \in DOMAIN t.comid}] :
        \A k \in DOMAIN t.comid :
            \E m \in DOMAIN t.comid : t.comid[m] = t.comid[k] /\ t.tocomid[m] = pick[t.comid[k]]}

ModifyNhd ==
    /\ pc = "nhd"
    /\ \E pick \in Picks(nhd_table) :
         LET keep == Retained(nhd_table, pick)
             merged == [comid |-> Masked(nhd_table.comid, keep),
                        tocomid |-> Masked(nhd_table.tocomid, keep),
                        streamcalc |-> Masked(nhd_table.streamcalc, keep),
                        terminal |-> Masked(nhd_table.terminal, keep),
                        coastal |-> Masked(nhd_table.coastal, keep),
                        travel_time |-> Masked(nhd_table.travel_time, keep),
                        length |-> Masked(nhd_table.length, keep)]
             flag == [k \in DOMAIN merged.comid |-> OutletFlag(merged, k)]
         IN nhd_table' =
              [comid |-> merged.comid,
               \* line 239: sever the outlets from their downstream reaches
               tocomid |-> [k \in DOMAIN merged.comid |->
                              IF flag[k] = 1 THEN 0 ELSE merged.tocomid[k]],
               outlet |-> flag,
               streamcalc |-> merged.streamcalc,
               terminal |-> merged.terminal,
               coastal |-> merged.coastal,
               travel_time |-> merged.travel_time,
               length |-> merged.length]
    /\ pc' = "unpack"
    /\ UNCHANGED <<error, unpackv, tracev, resultv, buildv, rerunv, mainv>>

\* A table as read.nhd hands it to modify.nhd: up to MaxTableReaches records
\* with positive ids (0 is the value modify.nhd writes for "no reach"), not
\* necessarily distinct, each flowing to an id, in the table or not, or to
\* none (-1); each record carrying at most one of streamcalc, terminal path
\* and coastal.  travel_time (modify.nhd derives it from the length and the
\* velocity of the record) is read as a column of the table.
InitMain ==
    /\ pc = "nhd"
    /\ region = 1 /\ written = {}
    /\ \E n \in 1..MaxTableReaches :
         \E ids \in [0..(n - 1) -> 1..MaxId],
            to \in [0..(n - 1) -> {-1} \cup 1..MaxId],
            sc \in [0..(n - 1) -> {0, 1}],
            te \in [0..(n - 1) -> {0, 1}],
            co \in [0..(n - 1) -> {0, 1}],
            tt \in TravelTimes(n) :
           /\ \A k \in 0..(n - 1) : sc[k] + te[k] + co[k] <= 1
           /\ nhd_table = [comid |-> ids,
                           tocomid |-> to,
                           streamcalc |-> sc,
                           terminal |-> te,
                           coastal |-> co,
                           travel_time |-> tt,
                           length |-> Lengths(n)]
    /\ Unbuilt

(* ------------------------------- re-run -------------------------------- *)
\* rapid_trace called a second time on the nodes, outlets, times and dists it
\* has just returned from; the tables of the first call are kept in first
Rerun ==
    /\ pc = "map"
    /\ run = 1
    /\ first' = [paths |-> paths, times |-> ptimes, dists |-> pdists]
    /\ run' = 2
    /\ pc' = "trace"
    /\ UNCHANGED <<error, inputv, unpackv, tracev, resultv, buildv, mainv>>

\* the arrays of some of the outlets of o, each once, in any order
Reordered(o) ==
    UNION {{[k \in 0..(m - 1) |-> o[f[k]]] :
              f \in {g \in [0..(m - 1) -> DOMAIN o] :
                        \A j, k \in 0..(m - 1) : g[j] = g[k] => j = k}} :
           m \in 1..Size(o)}

\* rapid_trace called a second time on the same nodes, times and dists with
\* the outlets in another order, or with some of them only; the tables and
\* the walks of the first call are kept in first
Retrace ==
    /\ pc = "map"
    /\ run = 1
    /\ Size(outlets) >= 1
    /\ first' = [paths |-> paths, times |-> ptimes, dists |-> pdists,
                 walks |-> committed]
    /\ outlets' \in Reordered(outlets)
    /\ run' = 2
    /\ pc' = "trace"
    /\ UNCHANGED <<error, inputv, nodes, times, dists, conversion, tracev, resultv,
                   buildv, mainv>>

(* --------------------------- main, all regions ------------------------- *)
\* the table of a region before it is read
Unread == [comid |-> Empty, tocomid |-> Empty, streamcalc |-> Empty,
           terminal |-> Empty, coastal |-> Empty,
           travel_time |-> Empty, length |-> Empty]

\* The tables read.nhd may find for a region: up to max_length + 1 records
\* (one reach more than the buffer of rapid_trace holds) with the ids 1..n in
\* table order, each flowing to a reach of the table or to none, any of them
\* on a terminal path.
RegionTables ==
    UNION {{[comid |-> [k \in 0..(n - 1) |-> k + 1],
             tocomid |-> to,
             streamcalc |-> Zeros(n),
             terminal |-> te,
             coastal |-> Zeros(n),
             travel_time |-> tt,
             length |-> Lengths(n)] :
               to \in [0..(n - 1) -> {-1} \cup 1..n],
               te \in [0..(n - 1) -> {0, 1}],
               tt \in TravelTimes(n)} : n \in 1..(max_length + 1)}

\* line 257: nhd_table = read.nhd(region)
ReadNhd ==
    /\ pc = "read"
    /\ nhd_table' \in RegionTables
    /\ pc' = "nhd"
    /\ UNCHANGED <<error, unpackv, tracev, resultv, buildv, rerunv, mainv>>

\* lines 265-273 and 252: the flow and lake files of the region (not
\* modelled), then the next region of nhd_regions; the names of the loop body
\* are bound anew for it
NextRegion ==
    /\ pc = "done"
    /\ region < Len(nhd_regions)
    /\ region' = region + 1
    /\ pc' = "read"
    /\ nhd_table' = Unread
    /\ error' = "none"
    /\ nodes' = Empty /\ times' = Empty /\ dists' = Empty
    /\ outlets' = Empty /\ conversion' = Empty
    /\ all_paths' = Empty /\ all_times' = Empty /\ all_dists' = Empty
    /\ path_cursor' = 0 /\ longest_path' = 0 /\ progress' = 0 /\ already' = {}
    /\ committed' = <<>>
    /\ i' = 0
    /\ queue' = Empty /\ active_reach' = Empty
    /\ active_times' = Empty /\ active_dists' = Empty
    /\ start_cursor' = 0 /\ queue_cursor' = 0
    /\ active_reach_cursor' = 0 /\ active_node' = 0
    /\ paths' = Empty /\ ptimes' = Empty /\ pdists' = Empty
    /\ path_map' = Empty
    /\ nav' = NoNav
    /\ artifact' = NoArtifact
    /\ UNCHANGED <<rerunv, written>>

InitRegions ==
    /\ pc = "read"
    /\ region = 1 /\ written = {}
    /\ nhd_table = Unread
    /\ Unbuilt

(* ------------------------------- Spec ---------------------------------- *)
\* NavigatorBuilder(nhd_table) followed by write.navigator
Next ==
    \/ UnpackNhd
    \/ RapidTrace
    \/ NextOutlet
    \/ Walk
    \/ MapPaths
    \/ CollapseArray
    \/ WriteNavigator

Spec == Init /\ [][Next]_vars

\* main for one region: modify.nhd, NavigatorBuilder, write.navigator
NextMain ==
    \/ ModifyNhd
    \/ Next

SpecMain == InitMain /\ [][NextMain]_vars

\* the build, with rapid_trace run once more on the same inputs
NextRerun ==
    \/ Rerun
    \/ Next

SpecRerun == Init /\ [][NextRerun]_vars

\* the build, with rapid_trace run once more on other outlets of the network
NextRetrace ==
    \/ Retrace
    \/ Next

SpecRetrace == Init /\ [][NextRetrace]_vars

\* the build, run by the interpreter until it ends
SpecLive == Init /\ [][Next]_vars /\ WF_vars(Next)

\* main over nhd_regions; the interpreter runs the program until it ends
NextRegions ==
    \/ ReadNhd
    \/ NextRegion
    \/ NextMain

SpecRegions == InitRegions /\ [][NextRegions]_vars /\ WF_vars(NextRegions)

(* ------------------- the network, read off the inputs ------------------ *)
Aliases == DOMAIN nodes

\* the downstream alias of a, -1 when it has none in the table
Down(a) == nodes[a][1]

UpstreamOf(a) == {b \in Aliases : Down(b) = a}

IsOutlet(a) == \E k \in DOMAIN outlets : outlets[k] = a

IsHeadwater(a) == UpstreamOf(a) = {}

\* k steps downstream of a
RECURSIVE DownBy(_, _)
DownBy(a, k) == IF k = 0 \/ a = -1 THEN a ELSE DownBy(Down(a), k - 1)

HasCycle == \E a \in Aliases : \E k \in 1..Size(nodes) : DownBy(a, k) = a

\* a lies upstream of (or is) a flagged outlet
Drains(a) == \E k \in 0..Size(nodes) : DownBy(a, k) # -1 /\ IsOutlet(DownBy(a, k))

\* the sum of vals over the reaches from a's outlet up to and including a
RECURSIVE OutletSum(_, _, _)
OutletSum(vals, a, fuel) ==
    IF IsOutlet(a) \/ Down(a) = -1 \/ fuel = 0 THEN vals[a]
    ELSE vals[a] + OutletSum(vals, Down(a), fuel - 1)

\* number of reaches from a's outlet up to and including a
RECURSIVE Depth(_, _)
Depth(a, fuel) ==
    IF IsOutlet(a) \/ Down(a) = -1 \/ fuel = 0 THEN 1 ELSE 1 + Depth(Down(a), fuel - 1)

\* the reaches rapid_trace is to visit, and the walks it is to commit
Traced == {a \in Aliases : Drains(a)}

NumWalks == Cardinality({a \in Traced : IsHeadwater(a)})

\* every traced reach drains to exactly one flagged outlet, through no cycle
WellFormed ==
    \A a \in Traced :
        /\ DownBy(a, Size(nodes)) = -1
        /\ Cardinality({k \in 0..(Size(nodes) - 1) :
                           DownBy(a, k) # -1 /\ IsOutlet(DownBy(a, k))}) = 1

DepthOf(a) == Depth(a, Size(nodes))

Unpacked == pc \notin {"nhd", "unpack"} /\ error # "InvalidIndexError"

\* rapid_trace has returned its three tables
Returned == pc \in {"map", "collapse", "write", "done"} \/ (pc = "failed" /\ error = "ValueError")

Mapped == pc \in {"collapse", "write", "done"}

\* the cells a commit filled in row r: columns start .. end of its walk
RowCells(r) == committed[r + 1].start..(Size(committed[r + 1].walk) - 1)

\* the alias the commit of row r stored at column c
CellAlias(r, c) == committed[r + 1].walk[c]

\* row r's outlet-to-headwater walk passes through a
PassesThrough(r, a) == \E c \in DOMAIN committed[r + 1].walk : CellAlias(r, c) = a

(* ------------------------------- claims -------------------------------- *)
\* C1 (as claimed): in an acyclic network, once rapid_trace has returned, the
\* time and the distance table hold at every cell a commit filled the sum of the
\* travel times, respectively lengths, from the outlet up to and including
\* the cell's reach.
C1_CumulativeSums ==
    (Returned /\ ~HasCycle) =>
        \A r \in DOMAIN paths : \A c \in RowCells(r) :
            /\ ptimes[r][c] = OutletSum(times, CellAlias(r, c), Size(nodes))
            /\ pdists[r][c] = OutletSum(dists, CellAlias(r, c), Size(nodes))

\* C2 (as claimed, read for the aliases that drain to a flagged outlet): in an
\* acyclic network, once map_paths has run, every such alias has a path-map
\* entry with row_end > row_start whose row range holds every row whose walk
\* passes through the alias.
C2_EveryAliasMapped ==
    (Mapped /\ ~HasCycle) =>
        \A a \in Traced :
            /\ a \in DOMAIN path_map
            /\ path_map[a][2] > path_map[a][1]
            /\ \A r \in DOMAIN paths :
                   PassesThrough(r, a) => path_map[a][1] <= r /\ r < path_map[a][2]

\* C3 (as claimed): a run on a network with a cycle never completes.
C3_CycleIsFatal == HasCycle => pc # "done"

\* the run ended at line 227: the tables have no row for the walk to commit
CommitOverflow ==
    /\ pc = "failed" /\ error = "IndexError"
    /\ active_reach_cursor >= 1
    /\ active_reach[active_reach_cursor - 1] = active_node

\* the run ended at line 209: the buffer has no position for active_node
BufferOverflow ==
    /\ pc = "failed" /\ error = "IndexError"
    /\ ~CommitOverflow

\* C4: the tables never hold more than max_paths rows; a returned table holds
\* one row for every walk of the network, so none is returned when there are
\* more than max_paths walks; such a run, when nothing else is wrong with the
\* network, fails with IndexError; and the failing commit is that of walk
\* number max_paths, the first max_paths rows being committed.
C4_PathCapacity ==
    /\ path_cursor <= max_paths
    /\ Returned => path_cursor = NumWalks /\ Size(paths) = NumWalks
    /\ (pc \in {"done", "failed"} /\ NumWalks > max_paths /\ WellFormed) =>
           pc = "failed" /\ error = "IndexError"
    /\ CommitOverflow =>
           /\ path_cursor = max_paths /\ Len(committed) = max_paths
           /\ IsHeadwater(active_node)
           /\ NumWalks > max_paths
           /\ paths = Empty

C4_Witness == CommitOverflow /\ NumWalks > max_paths /\ WellFormed

\* C5: the buffer cursor never passes max_length; when the run fails at the
\* append, the reach to append is at depth max_length + 1 and the buffer still
\* holds its max_length ancestors, outlet first; a returned table holds every
\* traced reach at the column of its depth, so none is returned with a walk
\* longer than max_length; such a run fails (IndexError when nothing else is
\* wrong with the network).
C5_BufferCapacity ==
    /\ active_reach_cursor <= max_length
    /\ BufferOverflow =>
           /\ active_reach_cursor = max_length
           /\ \A k \in 0..(max_length - 1) :
                  active_reach[k] = DownBy(active_node, max_length - k)
           /\ IsOutlet(active_reach[0])
           /\ paths = Empty
    /\ Returned =>
           \A a \in Traced :
               /\ DepthOf(a) <= max_length
               /\ \E r \in DOMAIN paths :
                      /\ Size(committed[r + 1].walk) >= DepthOf(a)
                      /\ committed[r + 1].walk[DepthOf(a) - 1] = a
    /\ (pc \in {"done", "failed"} /\ WellFormed
           /\ \E a \in Traced : DepthOf(a) > max_length) =>
           pc = "failed" /\ error = "IndexError"

C5_Witness == BufferOverflow /\ WellFormed /\ NumWalks <= max_paths

\* the network is the tree O <- {A, B}, A <- C, with O its only outlet
IsTreeOABC(O, A, B, C) ==
    /\ Aliases = {O, A, B, C} /\ Cardinality({O, A, B, C}) = 4
    /\ \A a \in Aliases : IsOutlet(a) <=> a = O
    /\ Down(O) = -1 /\ Down(A) = O /\ Down(B) = O /\ Down(C) = A

\* row r holds the walk w (a tuple of aliases, outlet first)
IsWalk(r, w) ==
    /\ Size(committed[r + 1].walk) = Len(w)
    /\ \A k \in 1..Len(w) : committed[r + 1].walk[k - 1] = w[k]

\* C6 (as claimed): a returned table has one row per headwater of the traced
\* trees, each headwater ending exactly one row; for the tree O <- {A, B},
\* A <- C there are two rows, the walks O, A, C and O, B, and the time stored
\* for C (row of O, A, C, column 2) is time(O) + time(A) + time(C).
C6_OneRowPerHeadwater ==
    Returned =>
        /\ Size(paths) = NumWalks
        /\ \A h \in {a \in Traced : IsHeadwater(a)} :
               Cardinality({r \in DOMAIN paths :
                   committed[r + 1].walk[Size(committed[r + 1].walk) - 1] = h}) = 1
        /\ \A O, A, B, C \in Aliases :
               IsTreeOABC(O, A, B, C) =>
                   /\ Size(paths) = 2
                   /\ \E r, q \in DOMAIN paths :
                          /\ IsWalk(r, <<O, A, C>>) /\ IsWalk(q, <<O, B>>)
                          /\ ptimes[r][2] = times[O] + times[A] + times[C]

\* the network is one chain of reaches, its root the only outlet, all reaches
\* with the travel time t
IsChain(t) ==
    /\ Aliases # {}
    /\ ~HasCycle
    /\ Cardinality({a \in Aliases : Down(a) = -1}) = 1
    /\ \A a \in Aliases : Cardinality(UpstreamOf(a)) <= 1
    /\ \A a \in Aliases : IsOutlet(a) <=> Down(a) = -1
    /\ \A a \in Aliases : times[a] = t

\* C7 (as claimed): for a chain of n reaches with uniform travel time t the
\* returned table has one row whose times are t, 2t, ..., n*t, and so has the
\* time array of collapse_array.
C7_ChainTimes ==
    \A t \in TimeValues :
        /\ (Returned /\ IsChain(t)) =>
               /\ Size(paths) = 1
               /\ ptimes[0] = [k \in 0..(Size(nodes) - 1) |-> (k + 1) * t]
        /\ (pc \in {"write", "done"} /\ IsChain(t)) =>
               /\ Size(nav.times) = 1
               /\ nav.times[0] = [k \in 0..(Size(nodes) - 1) |-> (k + 1) * t]

\* C8: a second rapid_trace on the same inputs fails nowhere the first did
\* not, and returns the tables the first returned; and whenever the walk has
\* just moved upstream (not resumed a queued branch), the reach it moved to
\* is the first record of the table flowing into the reach it left.
C8_Deterministic ==
    /\ run = 2 =>
           /\ pc # "failed" \/ error = "ValueError"
           /\ Returned =>
                  /\ paths = first.paths
                  /\ ptimes = first.times
                  /\ pdists = first.dists
    /\ (pc = "walk" /\ active_reach_cursor > start_cursor) =>
           /\ Down(active_node) = active_reach[active_reach_cursor - 1]
           /\ \A b \in UpstreamOf(active_reach[active_reach_cursor - 1]) : active_node <= b

C8_Witness ==
    /\ run = 2 /\ pc = "map"
    /\ Size(paths) >= 2
    /\ \E a \in Aliases : Cardinality(UpstreamOf(a)) >= 2 /\ Drains(a)

C10_AliasBijection ==
    Unpacked =>
        /\ DOMAIN nodes = 0..(N - 1)
        /\ DOMAIN conversion = 0..(N - 1)
        /\ \A k \in 0..(N - 1) :
               /\ nodes[k][2] = k
               /\ conversion[nodes[k][2]] = nhd_table.comid[k]
               /\ \A m \in 0..(N - 1) :
                      nhd_table.comid[m] = conversion[k] => nodes[m][2] = k

C10_Witness ==
    /\ Unpacked
    /\ N >= 2
    /\ nhd_table.comid[0] > nhd_table.comid[1]

\* the table handed to unpack_nhd holds an id a reach of the table carries
InTable(id) == \E m \in DOMAIN nhd_table.comid : nhd_table.comid[m] = id

\* C11: after unpack_nhd every record has an alias of 0..N-1 that stands for
\* its id; a downstream target that is the id of a record is translated to
\* that record's alias, and every other target (0 of a severed outlet, -1 of
\* a missing target, an id outside the table) to -1, which is no alias; and
\* the walk is never at -1, so that no record flowing to -1 is among the
\* upstream records of a walk step.
C11_SentinelAlias ==
    Unpacked =>
        /\ \A k \in 0..(N - 1) :
               /\ nodes[k][2] \in 0..(N - 1)
               /\ nhd_table.comid[nodes[k][2]] = nhd_table.comid[k]
               /\ IF InTable(nhd_table.tocomid[k])
                  THEN /\ nodes[k][1] \in 0..(N - 1)
                       /\ nhd_table.comid[nodes[k][1]] = nhd_table.tocomid[k]
                  ELSE nodes[k][1] = -1
        /\ pc = "walk" =>
               /\ active_node \in 0..(N - 1)
               /\ \A j \in 1..Len(Upstream(nodes, active_node)) :
                      Upstream(nodes, active_node)[j][1] # -1

C11_Witness ==
    /\ pc = "walk"
    /\ \E k, m \in 0..(N - 1) :
           /\ nhd_table.tocomid[k] = 0 /\ nodes[k][1] = -1
           /\ nhd_table.tocomid[m] # 0 /\ nodes[m][1] = -1

\* two records of the table handed to unpack_nhd carry the same id
HasDuplicateIds ==
    \E a, b \in DOMAIN nhd_table.comid :
        a # b /\ nhd_table.comid[a] = nhd_table.comid[b]

\* C12: when two records of the table handed to NavigatorBuilder carry the
\* same id, the build ends in unpack_nhd with InvalidIndexError: no alias
\* table exists, no step of the trace has run, and no path table, path map
\* or artifact has been produced.
C12_DuplicateIdsFatal ==
    (pc # "nhd" /\ HasDuplicateIds) =>
        /\ pc \in {"unpack", "failed"}
        /\ pc = "failed" => error = "InvalidIndexError"
        /\ nodes = Empty /\ conversion = Empty /\ outlets = Empty
        /\ progress = 0 /\ all_paths = Empty /\ paths = Empty
        /\ path_map = Empty /\ nav = NoNav /\ artifact = NoArtifact

C12_Witness == pc = "failed" /\ error = "InvalidIndexError" /\ HasDuplicateIds

\* collapse_array has returned
Collapsed == pc \in {"write", "done"}

\* the cells of row r of table t from column s on, n of them
Cells(t, r, s, n) == [k \in 0..(n - 1) |-> t[r][s + k]]

\* C13 (as claimed): collapse_array keeps of every row the cells from the
\* first to the last column a commit filled, in order, in the three arrays;
\* start_cols is the first of these columns; and the alias at index k of a
\* compacted row is the alias at column start_cols + k of the row, the column
\* of its path-map entry.
C13_CollapseKeepsCells ==
    Collapsed =>
        \A r \in DOMAIN paths :
            LET s == committed[r + 1].start
                n == Size(committed[r + 1].walk) - s
            IN /\ nav.start_cols[r] = s
               /\ nav.paths[r] = Cells(paths, r, s, n)
               /\ nav.times[r] = Cells(ptimes, r, s, n)
               /\ nav.length[r] = Cells(pdists, r, s, n)
               /\ \A k \in DOMAIN nav.paths[r] :
                      /\ paths[r][nav.start_cols[r] + k] = nav.paths[r][k]
                      /\ path_map[nav.paths[r][k]][3] = nav.start_cols[r] + k

\* C14 (as claimed): in the written artifact every traced alias a has a
\* path-map entry (r0, r1, c) such that a occurs in row r0 of the persisted
\* paths, at the index c less the path-map column of the row's first alias
\* (the row's start column, which is not persisted), and the persisted time
\* and length at that index are the sums from the outlet up to a.
C14_ArtifactSufficient ==
    pc = "done" =>
        \A a \in Traced :
            /\ a \in DOMAIN artifact.path_map
            /\ LET r0 == artifact.path_map[a][1]
                   c == artifact.path_map[a][3]
               IN /\ r0 \in DOMAIN artifact.paths
                  /\ \E k \in DOMAIN artifact.paths[r0] : artifact.paths[r0][k] = a
                  /\ LET at == c - artifact.path_map[artifact.paths[r0][0]][3]
                     IN /\ at \in DOMAIN artifact.paths[r0]
                        /\ artifact.paths[r0][at] = a
                        /\ artifact.time[r0][at] = OutletSum(times, a, Size(nodes))
                        /\ artifact.length[r0][at] = OutletSum(dists, a, Size(nodes))

\* C15 (as claimed): when the build of a region that is not the last fails
\* with a revisited reach or an exceeded capacity, main goes on to the region
\* after it.
C15_FailureIsolated ==
    \A r \in 1..(Len(nhd_regions) - 1) :
        (pc = "failed" /\ error \in {"SystemExit", "IndexError"} /\ region = r)
            ~> (region = r + 1)

\* the first row after r whose commit started at column c or before it, the
\* row count when there is none
RowEnd(r, c) ==
    LET later == {q \in (r + 1)..(Len(committed) - 1) : committed[q + 1].start <= c}
    IN IF later # {} THEN CHOOSE q \in later : \A m \in later : q <= m
       ELSE Len(committed)

\* C16 (as claimed): for the alias a commit stored at row r, column c,
\* map_paths records (r, the first later row starting at column c or before,
\* c), and the rows from row_start up to row_end are exactly the rows whose
\* walk passes through the alias.
C16_RowRange ==
    Mapped =>
        \A r \in DOMAIN paths : \A c \in RowCells(r) :
            /\ path_map[CellAlias(r, c)] = <<r, RowEnd(r, c), c>>
            /\ \A q \in DOMAIN paths :
                   (r <= q /\ q < RowEnd(r, c)) <=> PassesThrough(q, CellAlias(r, c))

\* the walk of the latest commit, as the step leaves it
LastWalk == committed'[Len(committed')].walk

\* a step of the while loop that commits a row and resumes a queued branch
ResumeStep == pc = "walk" /\ pc' = "walk" /\ path_cursor' = path_cursor + 1

\* the buffer buf keeps the values vals of the walk w up to position j and is
\* zero from j + 1 on
KeptUpTo(buf, w, vals, j) ==
    buf = [k \in 0..(max_length - 1) |-> IF k <= j THEN vals[w[k]] ELSE 0]

\* C17: a step that commits and resumes pops the entry (r, u) on top of the
\* store; r is at exactly one position j of the walk just committed;
\* start_cursor and the buffer cursor become j + 1; the three buffers keep
\* positions 0..j and are zero from j + 1 on; and the walk goes on from u.
C17_Resume ==
    [][ResumeStep =>
          /\ queue_cursor >= 1
          /\ queue_cursor' = queue_cursor - 1
          /\ LET r == queue[queue_cursor - 1][1]
                 u == queue[queue_cursor - 1][2]
                 at == {j \in DOMAIN LastWalk : LastWalk[j] = r}
             IN /\ Cardinality(at) = 1
                /\ \A j \in at :
                       /\ start_cursor' = j + 1
                       /\ active_reach_cursor' = j + 1
                       /\ KeptUpTo(active_reach', LastWalk, [a \in Aliases |-> a], j)
                       /\ KeptUpTo(active_times', LastWalk, times, j)
                       /\ KeptUpTo(active_dists', LastWalk, dists, j)
                /\ active_node' = u
                /\ Down(u) = r]_vars

\* the walk has just resumed a branch two or more reaches up from the outlet
C17_Witness ==
    /\ pc = "walk"
    /\ Len(committed) >= 1
    /\ start_cursor >= 2
    /\ active_reach_cursor = start_cursor

\* the m-th reach flowing into a, in the order of the table (alias order)
NthUpstream(a, m) ==
    CHOOSE b \in UpstreamOf(a) : Cardinality({x \in UpstreamOf(a) : x < b}) = m - 1

\* an iteration of the while loop that raises nothing
WalkStep == pc = "walk" /\ pc' # "failed"

\* C18: an iteration at a reach with k >= 1 upstream reaches moves to the
\* first of them in table order and commits nothing; it appends to the store
\* the other k - 1, in table order, each paired with the reach it leaves,
\* and touches no other entry (none at all when k = 1); an iteration at a
\* reach with no upstream reach commits the walk that ends at that reach and
\* pushes nothing.
C18_Branching ==
    [][WalkStep =>
          LET k == Cardinality(UpstreamOf(active_node))
          IN /\ k >= 1 =>
                    /\ active_node' = NthUpstream(active_node, 1)
                    /\ path_cursor' = path_cursor
                    /\ queue_cursor' = queue_cursor + k - 1
                    /\ \A m \in 2..k :
                           queue'[queue_cursor + m - 2] =
                               <<active_node, NthUpstream(active_node, m)>>
                    /\ \A q \in DOMAIN queue :
                           (q < queue_cursor \/ q >= queue_cursor') => queue'[q] = queue[q]
             /\ k = 0 =>
                    /\ path_cursor' = path_cursor + 1
                    /\ queue' = queue
                    /\ LastWalk[Size(LastWalk) - 1] = active_node]_vars

\* the walk has just left a reach with three or more upstream reaches
C18_Witness ==
    /\ pc = "walk"
    /\ active_reach_cursor > start_cursor
    /\ Cardinality(UpstreamOf(Down(active_node))) >= 3
    /\ queue_cursor >= 2
    /\ queue[queue_cursor - 1][1] = Down(active_node)

\* the position of alias a in walk w
PositionIn(w, a) == CHOOSE j \in DOMAIN w : w[j] = a

\* every alias a commit stored in a row r is passed through by r and by the
\* rows of one interval that begins at r, and by no other row
Contiguous(rows) ==
    \A r \in 0..(Len(rows) - 1) :
        \A c \in rows[r + 1].start..(Size(rows[r + 1].walk) - 1) :
            \A q \in 0..(Len(rows) - 1) :
                (\E d \in DOMAIN rows[q + 1].walk : rows[q + 1].walk[d] = rows[r + 1].walk[c]) =>
                    /\ q >= r
                    /\ \A m \in r..q :
                           \E d \in DOMAIN rows[m + 1].walk :
                               rows[m + 1].walk[d] = rows[r + 1].walk[c]

DrainsTo(b, o) == \E k \in 0..Size(nodes) : DownBy(b, k) = o

\* an iteration of the while loop that commits a row
CommitStep == pc = "walk" /\ path_cursor' = path_cursor + 1

\* C20: a commit leaves the while loop exactly when no branch is pending
\* (queue_cursor = 0); it then has visited every reach upstream of the outlet
\* and the next outlet of the list is due; the loop of an outlet starts at
\* that outlet with an empty store, and every row committed in it is a walk
\* from that outlet; while the loop runs, the pending entries are the first
\* queue_cursor entries of the store, fewer than its N entries, none of them
\* the empty marker (0, 0), and the last entry of the store, which an empty
\* store reads, is the empty marker.
C20_OutletLoop ==
    [][/\ CommitStep =>
              /\ (pc' = "outlet") <=> (queue_cursor = 0)
              /\ LastWalk[0] = outlets[i]
              /\ pc' = "outlet" =>
                     /\ i' = i + 1
                     /\ \A b \in Aliases :
                            DrainsTo(b, outlets[i]) => conversion[b] \in already'
       /\ (pc = "outlet" /\ pc' = "walk") =>
              /\ i' = i
              /\ active_node' = outlets[i]
              /\ queue_cursor' = 0
              /\ active_reach_cursor' = 0
       /\ pc' = "walk" =>
              /\ 0 <= queue_cursor' /\ queue_cursor' < Size(queue')
              /\ \A q \in 0..(queue_cursor' - 1) : queue'[q] # <<0, 0>>
              /\ queue'[Size(queue') - 1] = <<0, 0>>]_vars

\* the second outlet of the list is being traced after a first outlet whose
\* tree took two commits
C20_Witness ==
    /\ pc = "walk"
    /\ i = 1
    /\ Len(committed) >= 2
    /\ committed[1].walk[0] = outlets[0]
    /\ committed[2].walk[0] = outlets[0]

\* the id of every reach of every committed walk is in the visited set
WalkedAreVisited(rows, seen) ==
    \A r \in 1..Len(rows) : \A c \in DOMAIN rows[r].walk :
        conversion[rows[r].walk[c]] \in seen

\* C21: the visited set holds the reaches walked for all outlets so far; an
\* iteration at a reach whose id is in it ends the run with SystemExit and
\* leaves the buffer, its cursor, the tables and the row count as they were;
\* and once the run has ended so, nothing is committed, returned, mapped,
\* collapsed or written.
C21_RevisitAborts ==
    [][/\ (pc = "walk" /\ conversion[active_node] \in already) =>
              /\ pc' = "failed" /\ error' = "SystemExit"
              /\ active_reach' = active_reach
              /\ active_reach_cursor' = active_reach_cursor
              /\ <<all_paths, all_times, all_dists>>' = <<all_paths, all_times, all_dists>>
              /\ path_cursor' = path_cursor /\ committed' = committed
       /\ pc' = "walk" => WalkedAreVisited(committed', already')
       /\ error' = "SystemExit" =>
              /\ pc' = "failed"
              /\ path_cursor' = path_cursor /\ committed' = committed
              /\ paths' = Empty /\ path_map' = Empty
              /\ nav' = NoNav /\ artifact' = NoArtifact]_vars

\* the walk of a later outlet has run into a reach walked for an earlier one
C21_Witness ==
    /\ pc = "failed" /\ error = "SystemExit"
    /\ i >= 1
    /\ Len(committed) >= 1
    /\ committed[1].walk[0] # outlets[i]

\* rapid_trace has ended: it has returned, or a revisit or an exceeded
\* capacity has ended the run
TraceEnded == Returned \/ (pc = "failed" /\ error \in {"SystemExit", "IndexError"})

\* C22: every iteration of the walk loop ends the run or adds the id of a
\* reach that was not in the visited set; the iterations of a run, over all
\* outlets, number at most N + 1; and rapid_trace ends, returning or with a
\* revisit or capacity failure.
C22_Terminates ==
    /\ [][pc = "walk" =>
              \/ pc' = "failed"
              \/ /\ conversion[active_node] \notin already
                 /\ already' = already \cup {conversion[active_node]}]_vars
    /\ [](progress <= N + 1)
    /\ <>TraceEnded

\* a run that took N + 1 iterations: it walked every reach and then came
\* back to one of them
C22_Witness ==
    /\ pc = "failed" /\ error = "SystemExit"
    /\ N >= 2
    /\ progress = N + 1
    /\ HasCycle

\* the reach with alias 0 is in a committed walk, at row r and column c
ZeroAt(r, c) ==
    /\ r \in 0..(Len(committed) - 1)
    /\ c \in RowCells(r)
    /\ CellAlias(r, c) = 0

\* C23 (as claimed): when the reach with alias 0 has been walked and stored
\* at row r, column c, the returned tables hold its cumulative time and
\* distance in that cell, and the cell differs from the cells no commit
\* filled; map_paths takes the cell for the start of the row when it is the
\* row's first and gives alias 0 an entry with row_end > row_start at (r, c);
\* and collapse_array keeps the cell, at index c less the start of the row.
C23_AliasZeroLikeOthers ==
    \A r \in DOMAIN paths : \A c \in DOMAIN paths[r] :
        ZeroAt(r, c) =>
            /\ Returned =>
                   /\ ptimes[r][c] = OutletSum(times, 0, Size(nodes))
                   /\ pdists[r][c] = OutletSum(dists, 0, Size(nodes))
                   /\ \A d \in DOMAIN paths[r] : d \notin RowCells(r) => paths[r][d] # paths[r][c]
                   /\ c = committed[r + 1].start => PathBegins(paths)[r] = c
            /\ Mapped =>
                   /\ path_map[0][2] > path_map[0][1]
                   /\ path_map[0][1] = r /\ path_map[0][3] = c
            /\ Collapsed =>
                   /\ nav.start_cols[r] = committed[r + 1].start
                   /\ Size(nav.paths[r]) = Size(committed[r + 1].walk) - committed[r + 1].start
                   /\ nav.paths[r][c - committed[r + 1].start] = 0

\* the iteration about to run needs a buffer position or a table row that
\* the configured capacity does not have
Exceeds ==
    /\ pc = "walk"
    /\ conversion[active_node] \notin already
    /\ \/ active_reach_cursor >= max_length
       \/ Upstream(nodes, active_node) = <<>> /\ path_cursor >= max_paths

\* C24 (as claimed): when max_paths rows or max_length columns are exceeded
\* rapid_trace does not fail; it goes on and returns the tables sliced to
\* the used size.
C24_SilentTruncation == [][Exceeds => pc' # "failed"]_vars

\* C24 (amended): an iteration that exceeds the capacity raises IndexError
\* (line 209 for the columns, line 227 for the rows) and rapid_trace returns
\* nothing; a run that returns has left out no reach it visited.
C24_CapacityFails ==
    /\ [][Exceeds => /\ pc' = "failed" /\ error' = "IndexError"
                     /\ UNCHANGED <<outv, path_cursor, committed, resultv>>]_vars
    /\ [](error = "IndexError" => pc = "failed" /\ paths = Empty /\ nav = NoNav /\ artifact = NoArtifact)
    /\ [](Returned => /\ Size(paths) = Len(committed)
                      /\ \A a \in Aliases : conversion[a] \in already =>
                             \E r \in 0..(Len(committed) - 1) : \E c \in RowCells(r) :
                                 CellAlias(r, c) = a)

C24_Witness ==
    /\ pc = "failed" /\ error = "IndexError"
    /\ Len(committed) = max_paths
    /\ active_reach_cursor <= max_length

\* a row of a returned table, filled up with zeros to max_length cells
Pad(row) == [k \in 0..(max_length - 1) |-> IF k < Size(row) THEN row[k] ELSE 0]

\* the rows a call of rapid_trace returned, in order, each with the outlet
\* its walk began at and the column its commit began at
RowsOf(tp, tt, td, walks) ==
    [r \in 1..Len(walks) |-> [outlet |-> walks[r].walk[0],
                              start |-> walks[r].start,
                              p |-> Pad(tp[r - 1]),
                              t |-> Pad(tt[r - 1]),
                              d |-> Pad(td[r - 1])]]

\* the rows of the tree of outlet o among them
RECURSIVE TreeRows(_, _)
TreeRows(rows, o) ==
    IF rows = <<>> THEN <<>>
    ELSE IF Head(rows).outlet = o THEN <<Head(rows)>> \o TreeRows(Tail(rows), o)
    ELSE TreeRows(Tail(rows), o)

\* C25: when rapid_trace has returned, a second call on the same network with
\* the outlets in another order, or with some of them only, returns too, and
\* for each of its outlets the same rows (aliases, cumulative times and
\* distances, starting column), in the same order, as the first call; and
\* every cell a commit filled holds the sum over the reaches from its own
\* outlet up to its own reach and of no other reach (alias 0, 0).
C25_OutletIndependence ==
    /\ run = 2 =>
           /\ pc # "failed" \/ error = "ValueError"
           /\ Returned =>
                  \A k \in DOMAIN outlets :
                      TreeRows(RowsOf(paths, ptimes, pdists, committed), outlets[k])
                          = TreeRows(RowsOf(first.paths, first.times, first.dists, first.walks),
                                     outlets[k])
    /\ Returned =>
           \A r \in DOMAIN paths : \A c \in DOMAIN paths[r] :
               IF c \in RowCells(r)
               THEN /\ ptimes[r][c] = OutletSum(times, CellAlias(r, c), Size(nodes)) * Positive(CellAlias(r, c))
                    /\ pdists[r][c] = OutletSum(dists, CellAlias(r, c), Size(nodes)) * Positive(CellAlias(r, c))
                    /\ DrainsTo(CellAlias(r, c), committed[r + 1].walk[0])
               ELSE paths[r][c] = 0 /\ ptimes[r][c] = 0 /\ pdists[r][c] = 0

C25_Witness ==
    /\ run = 2 /\ pc = "map"
    /\ Size(outlets) >= 2
    /\ Len(first.walks) >= 2
    /\ first.walks[1].walk[0] # committed[1].walk[0]
    /\ Size(first.walks[1].walk) > Size(committed[1].walk)

\* C26: at every iteration of the walk loop after the first of an outlet,
\* the buffer positions before the cursor hold the walk from the current
\* outlet to the reach appended last: position 0 is the outlet, the
\* downstream reach of the element at each position k >= 1 is the element at
\* position k - 1, no reach occurs twice, the reach to append next flows to
\* the last position, the positions from the cursor on are 0, and
\* 0 <= start_cursor < cursor <= max_length, a resumed branch having
\* start_cursor = cursor. Every committed walk was such a buffer.
C26_BufferIsWalk ==
    /\ (pc = "walk" /\ active_reach_cursor > 0) =>
           /\ 0 <= start_cursor
           /\ start_cursor <= active_reach_cursor
           /\ active_reach_cursor <= max_length
           /\ active_reach[0] = outlets[i]
           /\ \A k \in 1..(active_reach_cursor - 1) :
                  Down(active_reach[k]) = active_reach[k - 1]
           /\ \A j, k \in 0..(active_reach_cursor - 1) :
                  active_reach[j] = active_reach[k] => j = k
           /\ Down(active_node) = active_reach[active_reach_cursor - 1]
           /\ \A k \in active_reach_cursor..(max_length - 1) : active_reach[k] = 0
           /\ \A k \in 0..(active_reach_cursor - 1) :
                  /\ active_times[k] = times[active_reach[k]]
                  /\ active_dists[k] = dists[active_reach[k]]
    /\ \A r \in 1..Len(committed) :
           LET w == committed[r].walk
           IN /\ 0 <= committed[r].start
              /\ committed[r].start < Size(w)
              /\ Size(w) <= max_length
              /\ IsOutlet(w[0])
              /\ \A k \in 1..(Size(w) - 1) : Down(w[k]) = w[k - 1]
              /\ \A j, k \in DOMAIN w : w[j] = w[k] => j = k

C26_Witness ==
    /\ pc = "walk"
    /\ start_cursor >= 2
    /\ active_reach_cursor > start_cursor
    /\ Len(committed) >= 1

\* the cells of the returned path table
TableCells == {rc \in (DOMAIN paths) \X (0..(max_length - 1)) : rc[2] \in DOMAIN paths[rc[1]]}

\* the cells of the returned path table a commit filled
Filled == {rc \in TableCells : rc[2] \in RowCells(rc[1])}

\* the reaches rapid_trace visited
Visited == {a \in Aliases : conversion[a] \in already}

\* C27: when rapid_trace has returned, every visited reach is stored in
\* exactly one of the cells the commits filled, in the first row whose walk
\* passes through it; there are as many filled cells as visited reaches; and
\* every other cell of the table is unused (0), so that a row after the first
\* of a tree holds only what follows its branch point.
C27_OneCellPerReach ==
    Returned =>
        /\ \A a \in Visited :
               /\ Cardinality({rc \in Filled : paths[rc[1]][rc[2]] = a}) = 1
               /\ \A rc \in Filled :
                      paths[rc[1]][rc[2]] = a =>
                          /\ PassesThrough(rc[1], a)
                          /\ \A q \in 0..(rc[1] - 1) : ~PassesThrough(q, a)
        /\ \A rc \in Filled : paths[rc[1]][rc[2]] \in Visited
        /\ \A rc \in TableCells \ Filled : paths[rc[1]][rc[2]] = 0
        /\ Cardinality(Filled) = Cardinality(Visited)
        /\ Cardinality(already) = Cardinality(Visited)

C27_Witness ==
    /\ Returned
    /\ Len(committed) >= 2
    /\ committed[2].start >= 2
    /\ Cardinality(Visited) = 4

\* row r is the first row of the tree of its outlet
FirstOfTree(r) == r = 0 \/ committed[r].walk[0] # committed[r + 1].walk[0]

\* C28 (as claimed): the cells a commit filled are in each row one interval
\* of columns, and the column of a filled cell is the number of reaches
\* between its reach and the outlet, the outlet counted (outlet at column 0);
\* the first row of a tree starts at column 0 and a later row at the column
\* after its branch point, up to which it shares the walk of the row before
\* it; and the column of an alias's path-map entry is this depth.
C28_ColumnIsDepth ==
    /\ Returned =>
           \A r \in DOMAIN paths :
               /\ \A c \in DOMAIN paths[r] :
                      c \in RowCells(r) <=>
                          (committed[r + 1].start <= c /\ c < Size(committed[r + 1].walk))
               /\ \A c \in RowCells(r) :
                      /\ paths[r][c] = CellAlias(r, c)
                      /\ DepthOf(CellAlias(r, c)) = c + 1
               /\ FirstOfTree(r) <=> committed[r + 1].start = 0
               /\ ~FirstOfTree(r) =>
                      /\ committed[r + 1].start <= Size(committed[r].walk) - 1
                      /\ \A k \in 0..(committed[r + 1].start - 1) :
                             committed[r + 1].walk[k] = committed[r].walk[k]
                      /\ committed[r + 1].walk[committed[r + 1].start]
                             # committed[r].walk[committed[r + 1].start]
    /\ Mapped =>
           \A a \in Visited : path_map[a][3] = DepthOf(a) - 1

\* the length of the longest committed walk, 0 when there is none
LongestWalk ==
    IF committed = <<>> THEN 0
    ELSE LET sizes == {Size(committed[r].walk) : r \in 1..Len(committed)}
         IN CHOOSE m \in sizes : \A n \in sizes : n <= m

\* table t is what the slice [:rows, :cols] of the preallocated table a holds
SliceOf(t, a, rows, cols) ==
    /\ DOMAIN t = 0..(rows - 1)
    /\ \A r \in DOMAIN t :
           /\ DOMAIN t[r] = 0..(cols - 1)
           /\ \A c \in DOMAIN t[r] : t[r][c] = a[r][c]

\* every cell of the preallocated table a outside [:rows, :cols] is 0
ZeroOutside(a, rows, cols) ==
    \A r \in DOMAIN a : \A c \in DOMAIN a[r] :
        (r >= rows \/ c >= cols) => a[r][c] = 0

\* C29: the three tables rapid_trace returns have one row per commit and as
\* many columns as the longest walk over all outlets has reaches; they hold
\* what the preallocated tables hold there; every cell a commit filled is
\* inside, and every cell of the preallocated tables outside is 0.
C29_SliceKeepsAll ==
    Returned =>
        /\ path_cursor = Len(committed)
        /\ longest_path = LongestWalk
        /\ SliceOf(paths, all_paths, Len(committed), LongestWalk)
        /\ SliceOf(ptimes, all_times, Len(committed), LongestWalk)
        /\ SliceOf(pdists, all_dists, Len(committed), LongestWalk)
        /\ \A r \in 0..(Len(committed) - 1) : \A c \in RowCells(r) :
               r \in DOMAIN paths /\ c \in DOMAIN paths[r]
        /\ ZeroOutside(all_paths, path_cursor, longest_path)
        /\ ZeroOutside(all_times, path_cursor, longest_path)
        /\ ZeroOutside(all_dists, path_cursor, longest_path)

C29_Witness ==
    /\ pc = "map"
    /\ Len(committed) = 2
    /\ Size(committed[1].walk) = 1
    /\ Size(committed[2].walk) = max_length

\* row r of the three preallocated tables is left as it is
RowKept(r) ==
    /\ all_paths'[r] = all_paths[r]
    /\ all_times'[r] = all_times[r]
    /\ all_dists'[r] = all_dists[r]

\* C30: a step of the while loop that commits writes the row at index
\* path_cursor of the three tables and no other, fills it from start_cursor to
\* the end of the walk, and increases path_cursor by one; every other step
\* of the loop leaves the three tables and path_cursor as they are, so a
\* committed row is never modified; and no step of rapid_trace modifies
\* nodes, times, dists, outlets or conversion.
C30_CommitFrame ==
    [][/\ pc = "walk" =>
              /\ path_cursor' \in {path_cursor, path_cursor + 1}
              /\ \A r \in DOMAIN all_paths : r # path_cursor => RowKept(r)
              /\ path_cursor' = path_cursor => \A r \in DOMAIN all_paths : RowKept(r)
              /\ path_cursor' = path_cursor + 1 =>
                     /\ Len(committed') = Len(committed) + 1
                     /\ \A c \in DOMAIN all_paths[path_cursor] :
                            all_paths'[path_cursor][c] =
                                IF c \in committed'[path_cursor'].start
                                             ..(Size(committed'[path_cursor'].walk) - 1)
                                THEN committed'[path_cursor'].walk[c] ELSE 0
       /\ pc = "outlet" => UNCHANGED <<outv, path_cursor, committed>>
       /\ pc \in {"trace", "outlet", "walk"} => UNCHANGED <<inputv, unpackv>>]_vars

C30_Witness ==
    /\ pc = "walk"
    /\ path_cursor = 2
    /\ i = 1
    /\ all_paths[0][1] > 0
    /\ all_paths[1][0] > 0

=============================================================================
